---------------------------- MODULE Spec2Model ----------------------------
(***************************************************************************)
(* A model of qDecoder's obstack (src/src/qObstack.c): one Q_OBSTACK       *)
(* object, the entry list it owns, the finalized buffers malloc'ed by      *)
(* qObstackFinish, and the calls a program makes on them.                  *)
(*                                                                         *)
(* Bytes are integers 0..255, a memory block is a sequence of bytes, a     *)
(* pointer is NULL or a non-zero address.  The entry list (qEntryInit,     *)
(* qEntryPut, qEntryFirst, qEntryNext, qEntryFree) is not part of the      *)
(* sources at hand; it is modelled from its interface description.         *)
(*                                                                         *)
(* Beside it, three functions of src/src/qFile.c, each with its own state  *)
(* and its own specification: qFileSend (a copy loop over read and write), *)
(* qFileLock / qFileUnlock (flock by several processes on one file) and    *)
(* qfGetLine (a line read into a buffer that doubles).                     *)
(***************************************************************************)
EXTENDS Integers, Sequences, FiniteSets, TLC

\* ------------------------------------------------------------------ bounds
MaxChunks == 3      \* at most this many chunks are ever held by the list
MaxBufs == 2        \* at most this many successful malloc calls in finish
ScratchSize == 4    \* sizeof(str) in qObstackGrowStrf, scaled down from 1024
RecSize == 2        \* sizeof(struct sampleobj), scaled down from 16
ChunkSize == 2      \* _Q_FILESEND_CHUNK_SIZE, scaled down from 256 * 1024
MaxInput == 4       \* at most this many bytes wait on infd
MaxSize == 5        \* the largest size argument given to qFileSend
WordBits == 4       \* the width of size_t, scaled down from 64
NumProcs == 3       \* processes that have the same file open
InitMemSize == 2    \* the first memsize of qfGetLine, scaled down from 1024
IntBits == 5        \* the width of int, scaled down from 32

\* --------------------------------------------------------------- pointers
NULL == 0           \* the null pointer
OBS == 1            \* the handle qObstackInit returned
Handles == {NULL, OBS}

\* ------------------------------------------------------------ input pools
\* (object, size) pairs handed to qObstackGrow: "FGH" with size 3, the same
\* with size 0, and a null pointer.
RawArgs ==
    { [ptr |-> 1,    bytes |-> <<70, 71, 72>>, size |-> 3],
      [ptr |-> 1,    bytes |-> <<70, 71, 72>>, size |-> 0],
      [ptr |-> NULL, bytes |-> <<>>,           size |-> 3] }

\* texts handed to qObstackGrowStr (content, without the terminator): "AB", ""
Texts == { <<65, 66>>, <<>> }

\* complete renderings of (format, args) for qObstackGrowStrf: "CDE", ""
Renderings == { <<67, 68, 69>>, <<>> }

\* renderings longer than the scratch buffer: "CDEFG", "CDEFGHI"
LongRenderings == { <<67, 68, 69, 70, 71>>, <<67, 68, 69, 70, 71, 72, 73>> }

\* the records of the object sample: record i holds num = i in its first
\* byte and text bytes behind it; all have the same size
Rec(i) == [j \in 1..RecSize |-> IF j = 1 THEN i ELSE 104]
ObjArgs == { [ptr |-> 1, bytes |-> Rec(i), size |-> RecSize] : i \in 0..2 }

\* values an uninitialised malloc'ed byte may hold
Garbage == {0, 255}

VARIABLES
    alive,      \* TRUE until qObstackFree(obstack) released the object
    stack,      \* obstack->stack: [entries, size, num]
    final,      \* obstack->final: NULL or the address of a finalized buffer
    heap,       \* the finalized buffers: address -> [state, data]
    faults,     \* memory faults so far: "double free", "overrun"
    op,         \* the last call: [name, acc, object, size]
    ret,        \* what the last call returned
    grown,      \* history: the chunks the successful grow calls were given
    returned,   \* history: the buffers finish/getFinal handed to the caller
    snd,        \* the frame of qFileSend, with the two descriptors' files
    lck,        \* the lock on the shared file and each process's position
    lin         \* the frame of qfGetLine, with the stream and its buffer

vars == <<alive, stack, final, heap, faults, op, ret, grown, returned,
          snd, lck, lin>>

\* the obstack's part of the state
ovars == <<alive, stack, final, heap, faults, op, ret, grown, returned>>

\* processes that have the file open, each through a descriptor of its own
Procs == 1..NumProcs

\* no call of qFileSend yet
SendIdle ==
    [pc |-> "idle", size |-> 0, sent |-> 0, sendsize |-> 0, retr |-> 0,
     retw |-> 0, input |-> <<>>, pos |-> 0, output |-> <<>>, buf |-> <<>>,
     ret |-> 0]

\* the file unlocked, no process in a call
LockIdle == [holder |-> 0, pc |-> [p \in Procs |-> "idle"]]

\* no call of qfGetLine yet
LineIdle ==
    [pc |-> "idle", memsize |-> 0, c_count |-> 0, c |-> 0, string |-> <<>>,
     consumed |-> <<>>, ret |-> "none", denied |-> FALSE, ub |-> FALSE,
     fault |-> "none"]

Bufs == 1..MaxBufs

\* ------------------------------------------------------- C library pieces
\* strlen: the number of bytes before the first zero byte of s
strlen(s) == CHOOSE n \in 0..(Len(s) - 1) :
                 s[n + 1] = 0 /\ \A i \in 1..n : s[i] # 0

\* the memory a C string of content txt occupies
CStr(txt) == txt \o <<0>>

\* the first n bytes of s (all of s when it is shorter)
Take(s, n) == SubSeq(s, 1, IF n < Len(s) THEN n ELSE Len(s))

\* sprintf in place of vsnprintf: the rendering stored whatever its length
vsnprintf_Unbounded(size, rendering) == rendering \o <<0>>

\* vsnprintf(str, size, format, args): the scratch buffer afterwards, given
\* the complete rendering: at most size - 1 bytes of it, then a terminator
vsnprintf(size, rendering) == Take(rendering, size - 1) \o <<0>>

\* malloc(n) on success: n bytes of indeterminate content (u everywhere)
malloc(n, u) == [i \in 1..n |-> u]

\* memcpy copying one byte less than asked
memcpy_OneShort(buf, dp, src, n) ==
    [i \in 1..Len(buf) |->
        IF dp < i /\ i <= dp + n - 1 THEN src[i - dp] ELSE buf[i]]

\* memcpy(dp, src, n) into block buf, dp being an offset into buf; the part
\* of the copy that falls outside the block is not stored
memcpy(buf, dp, src, n) ==
    [i \in 1..Len(buf) |-> IF dp < i /\ i <= dp + n THEN src[i - dp] ELSE buf[i]]

\* free(p) on heap h
free(h, p) == [h EXCEPT ![p] = [state |-> "freed", data |-> <<>>]]

\* ------------------------------------------------- the entry list (Q_ENTRY)
\* qEntryInit(): an empty list
qEntryInit == [entries |-> <<>>, size |-> 0, num |-> 0, released |-> FALSE]

\* qEntryPut(entry, name, object, size, false) on success: a copy of
\* object[0..size) is appended as a new last entry, size and num grow
qEntryPut(entry, name, object, size) ==
    [entries |-> Append(entry.entries,
                        [name |-> name, object |-> Take(object, size),
                         size |-> size]),
     size |-> entry.size + size,
     num |-> entry.num + 1,
     released |-> entry.released]

\* qEntryFree(entry): every entry's storage and the list itself released
qEntryFree(entry) ==
    [entries |-> <<>>, size |-> 0, num |-> 0, released |-> TRUE]

\* qEntryFirst / qEntryNext: the entries in the order the cursor visits them
qEntryIterate(entry) == entry.entries

\* ------------------------------------------------------ qObstack functions
\* Each operator below is the body of one function: a relation between the
\* state before and after the call.  mem tells whether the allocation the
\* call makes (if it makes one) succeeds; r is the value returned.

\* qObstackGrow asking the list to replace the entry of the same name ("")
qObstackGrow_Replace(acc, object, size, mem, r) ==
    IF acc = NULL \/ object.ptr = NULL \/ size <= 0
    THEN r = FALSE /\ stack' = stack
    ELSE IF mem
         THEN /\ stack.num < MaxChunks
              /\ stack' = qEntryPut(qEntryInit, <<>>, object.bytes, size)
              /\ r = TRUE
         ELSE r = FALSE /\ stack' = stack

\* qObstackGrow without the size test of its first line
qObstackGrow_NoSizeCheck(acc, object, size, mem, r) ==
    IF acc = NULL \/ object.ptr = NULL
    THEN r = FALSE /\ stack' = stack
    ELSE IF mem
         THEN /\ stack.num < MaxChunks
              /\ stack' = qEntryPut(stack, <<>>, object.bytes, size)
              /\ r = TRUE
         ELSE r = FALSE /\ stack' = stack

qObstackGrow(acc, object, size, mem, r) ==
    IF acc = NULL \/ object.ptr = NULL \/ size <= 0
    THEN r = FALSE /\ stack' = stack
    ELSE IF mem
         THEN /\ stack.num < MaxChunks
              /\ stack' = qEntryPut(stack, <<>>, object.bytes, size)
              /\ r = TRUE
         ELSE r = FALSE /\ stack' = stack

qObstackGrowStr(acc, str, mem, r) ==
    qObstackGrow(acc, [ptr |-> 1, bytes |-> str], strlen(str), mem, r)

qObstackGrowStrf(acc, rendering, mem, r) ==
    IF acc = NULL
    THEN r = FALSE /\ stack' = stack
    ELSE LET str == vsnprintf(ScratchSize, rendering)
         IN  qObstackGrow(acc, [ptr |-> 1, bytes |-> str], strlen(str), mem, r)

\* the loop of qObstackFinish with "dp += obj->size" left out
RECURSIVE CopyEntries_NoAdvance(_, _, _)
CopyEntries_NoAdvance(buf, dp, objs) ==
    IF objs = <<>>
    THEN [buf |-> buf, dp |-> dp]
    ELSE CopyEntries_NoAdvance(
             memcpy(buf, dp, Head(objs).object, Head(objs).size),
             dp, Tail(objs))

\* the loop of qObstackFinish: every entry copied to dp, dp advanced
RECURSIVE CopyEntries(_, _, _)
CopyEntries(buf, dp, objs) ==
    IF objs = <<>>
    THEN [buf |-> buf, dp |-> dp]
    ELSE CopyEntries(memcpy(buf, dp, Head(objs).object, Head(objs).size),
                     dp + Head(objs).size, Tail(objs))

\* qObstackFinish's block with the terminator never stored
FinishBuffer_NoTerminator(u) ==
    LET blk == malloc(stack.size + 1, u)
        c == CopyEntries(blk, 0, qEntryIterate(stack))
    IN  [data |-> c.buf, overrun |-> c.dp > Len(blk)]

\* qObstackFinish's block allocated as malloc(size), without the + 1
FinishBuffer_NoPlusOne(u) ==
    LET blk == malloc(stack.size, u)
        c == CopyEntries(blk, 0, qEntryIterate(stack))
    IN  [data |-> memcpy(c.buf, c.dp, <<0>>, 1),
         overrun |-> c.dp + 1 > Len(blk)]

\* the block qObstackFinish fills: malloc(size + 1), the loop, the terminator
FinishBuffer(u) ==
    LET blk == malloc(stack.size + 1, u)
        c == CopyEntries(blk, 0, qEntryIterate(stack))
    IN  [data |-> memcpy(c.buf, c.dp, <<0>>, 1),
         overrun |-> c.dp + 1 > Len(blk)]

\* qObstackFinish keeping the previous buffer allocated
FreeFinal_Leak(h, f) == h

\* if(obstack->final != NULL) free(obstack->final): the heap afterwards
FreeFinal(h, f) == IF f # NULL THEN free(h, f) ELSE h

\* the faults after releasing f
FreeFaults(h, f) ==
    IF f # NULL /\ h[f].state # "live" THEN faults \cup {"double free"}
                                        ELSE faults

\* qObstackFinish leaving obstack->final as it was when malloc fails
qObstackFinish_Dangling(acc, mem, r) ==
    IF acc = NULL
    THEN r = NULL /\ UNCHANGED <<final, heap, faults>>
    ELSE LET h1 == FreeFinal(heap, final)
             f1 == FreeFaults(heap, final)
         IN  IF mem
             THEN \E dp \in Bufs, u \in Garbage :
                    /\ h1[dp].state = "unused"
                    /\ \A b \in Bufs : b < dp => h1[b].state # "unused"
                    /\ LET fb == FinishBuffer(u)
                       IN  /\ heap' = [h1 EXCEPT ![dp] =
                                         [state |-> "live", data |-> fb.data]]
                           /\ faults' = IF fb.overrun
                                        THEN f1 \cup {"overrun"} ELSE f1
                    /\ final' = dp
                    /\ r = dp
             ELSE /\ final' = final
                  /\ heap' = h1
                  /\ faults' = f1
                  /\ r = NULL

qObstackFinish(acc, mem, r) ==
    IF acc = NULL
    THEN r = NULL /\ UNCHANGED <<final, heap, faults>>
    ELSE LET h1 == FreeFinal(heap, final)
             f1 == FreeFaults(heap, final)
         IN  IF mem
             THEN \E dp \in Bufs, u \in Garbage :
                    /\ h1[dp].state = "unused"
                    /\ \A b \in Bufs : b < dp => h1[b].state # "unused"
                    /\ LET fb == FinishBuffer(u)
                       IN  /\ heap' = [h1 EXCEPT ![dp] =
                                         [state |-> "live", data |-> fb.data]]
                           /\ faults' = IF fb.overrun
                                        THEN f1 \cup {"overrun"} ELSE f1
                    /\ final' = dp
                    /\ r = dp
             ELSE /\ final' = NULL
                  /\ heap' = h1
                  /\ faults' = f1
                  /\ r = NULL

\* qObstackGetFinal finalizing on every call
qObstackGetFinal_Recompute(acc, mem, r) ==
    IF acc = NULL
    THEN r = NULL /\ UNCHANGED <<final, heap, faults>>
    ELSE /\ \E x \in Bufs \cup {NULL} : qObstackFinish(acc, mem, x)
         /\ r = final'

\* qObstackGetFinal with its test inverted
qObstackGetFinal_Inverted(acc, mem, r) ==
    IF acc = NULL
    THEN r = NULL /\ UNCHANGED <<final, heap, faults>>
    ELSE /\ IF final # NULL
            THEN \E x \in Bufs \cup {NULL} : qObstackFinish(acc, mem, x)
            ELSE UNCHANGED <<final, heap, faults>>
         /\ r = final'

qObstackGetFinal(acc, mem, r) ==
    IF acc = NULL
    THEN r = NULL /\ UNCHANGED <<final, heap, faults>>
    ELSE /\ IF final = NULL
            THEN \E x \in Bufs \cup {NULL} : qObstackFinish(acc, mem, x)
            ELSE UNCHANGED <<final, heap, faults>>
         /\ r = final'

\* qObstackGetSize reading the wrong field
qObstackGetSize_Num(acc) == IF acc = NULL THEN 0 ELSE stack.num

qObstackGetSize(acc) == IF acc = NULL THEN 0 ELSE stack.size

qObstackGetNum(acc) == IF acc = NULL THEN 0 ELSE stack.num

\* qObstackFree reporting success for a null handle
qObstackFree_NullTrue(acc, r) ==
    IF acc = NULL
    THEN r = TRUE /\ UNCHANGED <<alive, stack, final, heap, faults>>
    ELSE /\ stack' = qEntryFree(stack)
         /\ heap' = FreeFinal(heap, final)
         /\ faults' = FreeFaults(heap, final)
         /\ final' = final
         /\ alive' = FALSE
         /\ r = TRUE

\* qObstackFree without "if(obstack->final != NULL) free(obstack->final)"
qObstackFree_LeakFinal(acc, r) ==
    IF acc = NULL
    THEN r = FALSE /\ UNCHANGED <<alive, stack, final, heap, faults>>
    ELSE /\ stack' = qEntryFree(stack)
         /\ heap' = heap
         /\ faults' = faults
         /\ final' = final
         /\ alive' = FALSE
         /\ r = TRUE

qObstackFree(acc, r) ==
    IF acc = NULL
    THEN r = FALSE /\ UNCHANGED <<alive, stack, final, heap, faults>>
    ELSE /\ stack' = qEntryFree(stack)
         /\ heap' = FreeFinal(heap, final)
         /\ faults' = FreeFaults(heap, final)
         /\ final' = final
         /\ alive' = FALSE
         /\ r = TRUE

\* ------------------------------------------------------------------- calls
\* A call on the live obstack needs it not yet freed; a call on NULL is
\* always possible, and allocates nothing (mem is immaterial, fixed TRUE).
Callable(acc, mem) == IF acc = NULL THEN mem ELSE alive

\* the record of a call: its name, its handle, its object pointer and size
\* (grow calls), whether its allocation succeeds, and obstack->final at entry
Call(name, acc, ptr, size, mem) ==
    [name |-> name, acc |-> acc, object |-> ptr, size |-> size,
     mem |-> mem, before |-> final]

Init ==
    /\ alive = TRUE
    /\ stack = qEntryInit
    /\ final = NULL
    /\ heap = [b \in Bufs |-> [state |-> "unused", data |-> <<>>]]
    /\ faults = {}
    /\ op = Call("init", OBS, NULL, 0, TRUE)
    /\ ret = OBS
    /\ grown = <<>>
    /\ returned = {}
    /\ snd = SendIdle
    /\ lck = LockIdle
    /\ lin = LineIdle

\* a call qObstackGrow(acc, a.bytes, a.size)
GrowOf(a) ==
    \E acc \in Handles, mem \in BOOLEAN, r \in BOOLEAN :
      /\ Callable(acc, mem)
      /\ qObstackGrow(acc, a, a.size, mem, r)
      /\ op' = Call("grow", acc, a.ptr, a.size, mem)
      /\ ret' = r
      /\ grown' = IF r THEN Append(grown, Take(a.bytes, a.size)) ELSE grown
      /\ UNCHANGED <<alive, final, heap, faults, returned>>
      /\ UNCHANGED <<snd, lck, lin>>

Grow == \E a \in RawArgs : GrowOf(a)

\* the object sample's call: a record of the fixed size
GrowObj == \E a \in ObjArgs : GrowOf(a)

GrowStr ==
    \E acc \in Handles, txt \in Texts, mem \in BOOLEAN, r \in BOOLEAN :
      /\ Callable(acc, mem)
      /\ qObstackGrowStr(acc, CStr(txt), mem, r)
      /\ op' = Call("growStr", acc, 1, Len(txt), mem)
      /\ ret' = r
      /\ grown' = IF r THEN Append(grown, txt) ELSE grown
      /\ UNCHANGED <<alive, final, heap, faults, returned>>
      /\ UNCHANGED <<snd, lck, lin>>

\* a call qObstackGrowStrf(acc, format, args) rendering to `rendering`
GrowStrfOf(rendering) ==
    \E acc \in Handles, mem \in BOOLEAN, r \in BOOLEAN :
      /\ Callable(acc, mem)
      /\ qObstackGrowStrf(acc, rendering, mem, r)
      /\ op' = Call("growStrf", acc, 1, Len(rendering), mem)
      /\ ret' = r
      /\ grown' = IF r THEN Append(grown, Take(rendering, ScratchSize - 1))
                       ELSE grown
      /\ UNCHANGED <<alive, final, heap, faults, returned>>
      /\ UNCHANGED <<snd, lck, lin>>

GrowStrf == \E rendering \in Renderings : GrowStrfOf(rendering)

\* the same call with a rendering that does not fit the scratch buffer
GrowStrfLong == \E rendering \in LongRenderings : GrowStrfOf(rendering)

\* a finish that, like GNU obstack's, empties the list once it has finalized
Finish_ResetsList ==
    \E acc \in Handles, mem \in BOOLEAN, r \in Bufs \cup {NULL} :
      /\ Callable(acc, mem)
      /\ qObstackFinish(acc, mem, r)
      /\ op' = Call("finish", acc, NULL, 0, mem)
      /\ ret' = r
      /\ returned' = IF r # NULL THEN returned \cup {r} ELSE returned
      /\ stack' = IF r # NULL THEN qEntryInit ELSE stack
      /\ UNCHANGED <<alive, grown>>
      /\ UNCHANGED <<snd, lck, lin>>

Finish ==
    \E acc \in Handles, mem \in BOOLEAN, r \in Bufs \cup {NULL} :
      /\ Callable(acc, mem)
      /\ qObstackFinish(acc, mem, r)
      /\ op' = Call("finish", acc, NULL, 0, mem)
      /\ ret' = r
      /\ returned' = IF r # NULL THEN returned \cup {r} ELSE returned
      /\ UNCHANGED <<alive, stack, grown>>
      /\ UNCHANGED <<snd, lck, lin>>

GetFinal ==
    \E acc \in Handles, mem \in BOOLEAN, r \in Bufs \cup {NULL} :
      /\ Callable(acc, mem)
      /\ qObstackGetFinal(acc, mem, r)
      /\ op' = Call("getFinal", acc, NULL, 0, mem)
      /\ ret' = r
      /\ returned' = IF r # NULL THEN returned \cup {r} ELSE returned
      /\ UNCHANGED <<alive, stack, grown>>
      /\ UNCHANGED <<snd, lck, lin>>

GetSize ==
    \E acc \in Handles :
      /\ Callable(acc, TRUE)
      /\ op' = Call("getSize", acc, NULL, 0, TRUE)
      /\ ret' = qObstackGetSize(acc)
      /\ UNCHANGED <<alive, stack, final, heap, faults, grown, returned>>
      /\ UNCHANGED <<snd, lck, lin>>

GetNum ==
    \E acc \in Handles :
      /\ Callable(acc, TRUE)
      /\ op' = Call("getNum", acc, NULL, 0, TRUE)
      /\ ret' = qObstackGetNum(acc)
      /\ UNCHANGED <<alive, stack, final, heap, faults, grown, returned>>
      /\ UNCHANGED <<snd, lck, lin>>

Free ==
    \E acc \in Handles, r \in BOOLEAN :
      /\ Callable(acc, TRUE)
      /\ qObstackFree(acc, r)
      /\ op' = Call("free", acc, NULL, 0, TRUE)
      /\ ret' = r
      /\ UNCHANGED <<grown, returned>>
      /\ UNCHANGED <<snd, lck, lin>>

Next ==
    \/ Grow
    \/ GrowStr
    \/ GrowStrf
    \/ Finish
    \/ GetFinal
    \/ GetSize
    \/ GetNum
    \/ Free

Spec == Init /\ [][Next]_vars

\* formatted growth with renderings beyond the scratch buffer
NextStrf ==
    \/ GrowStrfLong
    \/ GrowStr
    \/ Finish
    \/ GetSize
    \/ GetNum

SpecStrf == Init /\ [][NextStrf]_vars

\* the object sample: fixed-size records grown, then finished
NextObj ==
    \/ GrowObj
    \/ Finish
    \/ GetSize
    \/ GetNum

SpecObj == Init /\ [][NextObj]_vars

\* ---------------------------------------------------------------- qFileSend
\* size_t is unsigned: its arithmetic is modulo 2 ^ WordBits
SizeMod == 2 ^ WordBits
SizeSub(a, b) == (a - b) % SizeMod
SizeAdd(a, b) == (a + b) % SizeMod

\* the size arguments, and the contents waiting on infd: "a", "ab", ...
SendSizes == 0..MaxSize
Inputs == { [i \in 1..n |-> 96 + i] : n \in 0..MaxInput }

Min(a, b) == IF a < b THEN a ELSE b

\* what read(fd, buf, count) may return with avail bytes left on fd: an
\* error, 0 at end of input or for a count of 0, else 1..count bytes
read(count, avail) ==
    {-1} \cup (IF count = 0 \/ avail = 0 THEN {0} ELSE 1..Min(count, avail))

\* what write(fd, buf, count) may return for count > 0: an error, nothing
\* written, or 1..count bytes
write(count) == {-1, 0} \cup 1..count

\* return sent
SendReturn(s) == [s EXCEPT !.pc = "done", !.ret = s.sent]

\* the call: a size, an input file and an output file that is empty; the
\* local array buf holds indeterminate bytes
SendCall ==
    \E size \in SendSizes, input \in Inputs, u \in Garbage :
      /\ snd.pc \in {"idle", "done"}
      /\ snd' = [pc |-> "test", size |-> size, sent |-> 0, sendsize |-> 0,
                 retr |-> 0, retw |-> 0, input |-> input, pos |-> 0,
                 output |-> <<>>, buf |-> [i \in 1..ChunkSize |-> u],
                 ret |-> 0]
      /\ UNCHANGED <<ovars, lck, lin>>

\* the loop test that asks for a whole chunk every time
SendTest_WholeChunk ==
    /\ snd.pc = "test"
    /\ snd' = IF snd.size = 0 \/ snd.sent < snd.size
              THEN [snd EXCEPT !.pc = "read", !.sendsize = ChunkSize]
              ELSE SendReturn(snd)
    /\ UNCHANGED <<ovars, lck, lin>>

\* while(size == 0 || sent < size) and the choice of sendsize
SendTest ==
    /\ snd.pc = "test"
    /\ snd' = IF snd.size = 0 \/ snd.sent < snd.size
              THEN [snd EXCEPT
                      !.pc = "read",
                      !.sendsize =
                         IF SizeSub(snd.size, snd.sent) <= ChunkSize
                         THEN SizeSub(snd.size, snd.sent)
                         ELSE ChunkSize]
              ELSE SendReturn(snd)
    /\ UNCHANGED <<ovars, lck, lin>>

\* retr = read(infd, buf, sendsize); if (retr <= 0) break
SendRead ==
    /\ snd.pc = "read"
    /\ \E n \in read(snd.sendsize, Len(snd.input) - snd.pos) :
         snd' = IF n <= 0
                THEN SendReturn([snd EXCEPT !.retr = n])
                ELSE [snd EXCEPT
                        !.pc = "write",
                        !.retr = n,
                        !.pos = @ + n,
                        !.buf = [i \in 1..ChunkSize |->
                                   IF i <= n THEN snd.input[snd.pos + i]
                                             ELSE @[i]]]
    /\ UNCHANGED <<ovars, lck, lin>>

\* retw = write(outfd, buf, retr); if (retw <= 0) break; sent += retw;
\* if (retr != retw) break
SendWrite ==
    /\ snd.pc = "write"
    /\ \E n \in write(snd.retr) :
         snd' = IF n <= 0
                THEN SendReturn([snd EXCEPT !.retw = n])
                ELSE LET s == [snd EXCEPT
                                 !.retw = n,
                                 !.output = @ \o SubSeq(snd.buf, 1, n),
                                 !.sent = SizeAdd(@, n)]
                     IN  IF snd.retr # n THEN SendReturn(s)
                                         ELSE [s EXCEPT !.pc = "test"]
    /\ UNCHANGED <<ovars, lck, lin>>

\* the steps of a call under way
SendStep ==
    \/ SendTest
    \/ SendRead
    \/ SendWrite

NextSend ==
    \/ SendCall
    \/ SendTest
    \/ SendRead
    \/ SendWrite

SpecSend == Init /\ [][NextSend]_vars

\* a call under way keeps running and its system calls return
SpecSendFair == Init /\ [][NextSend]_vars /\ WF_vars(SendStep)

\* ------------------------------------------------- qFileLock, qFileUnlock
\* flock(fd, operation) by process p on the shared file, whose lock is held
\* by `holder` (0: by nobody): the outcomes [r, holder] it can return with.
\* It fails with -1 (EINTR, EBADF, ...) or returns 0; LOCK_EX returns only
\* once no other process holds the lock and leaves it with p, where it also
\* stays if p held it already; LOCK_UN gives up what p holds.
flock(holder, p, operation) ==
    {[r |-> -1, holder |-> holder]} \cup
    (CASE operation = "LOCK_EX" ->
            IF holder \in {0, p} THEN {[r |-> 0, holder |-> p]} ELSE {}
       [] operation = "LOCK_UN" ->
            {[r |-> 0, holder |-> IF holder = p THEN 0 ELSE holder]})

\* qFileLock(fd): int ret = flock(fd, LOCK_EX); true when ret == 0
qFileLock(holder, p) ==
    { [r |-> (o.r = 0), holder |-> o.holder] :
        o \in flock(holder, p, "LOCK_EX") }

\* qFileUnlock(fd): int ret = flock(fd, LOCK_EX); true when ret == 0
qFileUnlock(holder, p) ==
    { [r |-> (o.r = 0), holder |-> o.holder] :
        o \in flock(holder, p, "LOCK_EX") }

\* process p calls qFileLock on its descriptor
LockCall ==
    \E p \in Procs :
      /\ lck.pc[p] \in {"idle", "lockfail", "unlocked"}
      /\ lck' = [lck EXCEPT !.pc[p] = "lock"]
      /\ UNCHANGED <<ovars, snd, lin>>

\* the call returns
LockReturn ==
    \E p \in Procs :
      /\ lck.pc[p] = "lock"
      /\ \E o \in qFileLock(lck.holder, p) :
           lck' = [holder |-> o.holder,
                   pc |-> [lck.pc EXCEPT
                             ![p] = IF o.r THEN "locked" ELSE "lockfail"]]
      /\ UNCHANGED <<ovars, snd, lin>>

\* process p, which took the lock with qFileLock, calls qFileUnlock
UnlockCall ==
    \E p \in Procs :
      /\ lck.pc[p] \in {"locked", "unlockfail"}
      /\ lck' = [lck EXCEPT !.pc[p] = "unlock"]
      /\ UNCHANGED <<ovars, snd, lin>>

\* the call returns
UnlockReturn ==
    \E p \in Procs :
      /\ lck.pc[p] = "unlock"
      /\ \E o \in qFileUnlock(lck.holder, p) :
           lck' = [holder |-> o.holder,
                   pc |-> [lck.pc EXCEPT
                             ![p] = IF o.r THEN "unlocked" ELSE "unlockfail"]]
      /\ UNCHANGED <<ovars, snd, lin>>

NextLock ==
    \/ LockCall
    \/ LockReturn
    \/ UnlockCall
    \/ UnlockReturn

SpecLock == Init /\ [][NextLock]_vars

\* ---------------------------------------------------------------- qfGetLine
\* the largest int
INT_MAX == 2 ^ (IntBits - 1) - 1

\* what fgetc returns at the end of the stream
EOF == -1

\* the bytes a stream holds: 'a' and '\n'
Bytes == {97, 10}

\* streams hold up to this many bytes: enough for memsize to pass INT_MAX
MaxLine == INT_MAX

\* memsize *= 2 on an int.  Beyond INT_MAX the behaviour is undefined: the
\* value wraps to the negative int, or the product is kept in a wider
\* register, or the program traps.
Double(memsize) ==
    IF 2 * memsize <= INT_MAX
    THEN {[trap |-> FALSE, value |-> 2 * memsize]}
    ELSE {[trap |-> FALSE, value |-> 2 * memsize - 2 ^ IntBits],
          [trap |-> FALSE, value |-> 2 * memsize],
          [trap |-> TRUE, value |-> memsize]}

\* string[c_count++] = (char)c; if ((char)c == '\n') break;
\* a write outside the allocated block is a fault
LineStore(l) ==
    LET inside == l.c_count < Len(l.string)
    IN  [l EXCEPT
           !.string = IF inside THEN [@ EXCEPT ![l.c_count + 1] = l.c] ELSE @,
           !.fault = IF inside THEN @ ELSE "overrun",
           !.c_count = @ + 1,
           !.pc = IF l.c = 10 THEN "end" ELSE "loop"]

\* return NULL from inside the loop; string, if any, has been freed
LineFail(l, denied) ==
    [l EXCEPT !.pc = "done", !.ret = "NULL", !.string = <<>>,
              !.denied = @ \/ denied]

\* the body of the for loop, lines 244-267, for the byte c just read: mem
\* tells whether the system grants the allocation, u is what fresh memory
\* holds, d the outcome of memsize *= 2.  A request of sizeof(char) *
\* (memsize + 1) with memsize + 1 not positive is, as a size_t, beyond what
\* any system grants.
qfGetLineBody(l, mem, u, d) ==
    IF l.c_count = 0
    THEN IF mem THEN LineStore([l EXCEPT !.string = malloc(l.memsize, u)])
                ELSE LineFail(l, TRUE)
    ELSE IF l.c_count = l.memsize - 1
    THEN IF d.trap
         THEN [l EXCEPT !.pc = "crashed", !.fault = "trap", !.ub = TRUE]
         ELSE LET g == [l EXCEPT !.memsize = d.value,
                                 !.ub = @ \/ (2 * l.memsize > INT_MAX)]
                  n == d.value + 1
              IN  IF n <= 0 THEN LineFail(g, FALSE)
                  ELSE IF ~mem THEN LineFail(g, TRUE)
                  ELSE LineStore([g EXCEPT !.string =
                         memcpy(malloc(n, u), 0, l.string, l.c_count)])
    ELSE LineStore(l)

\* the call: memsize = 1024 (scaled), c_count = 0, string = NULL
LineCall ==
    /\ lin.pc \in {"idle", "done"}
    /\ lin' = [LineIdle EXCEPT !.pc = "loop", !.memsize = InitMemSize]
    /\ UNCHANGED <<ovars, snd, lck>>

\* (c = fgetc(fp)) != EOF: the next byte of the stream, or EOF at its end
LineGetc ==
    /\ lin.pc = "loop"
    /\ \E c \in (IF Len(lin.consumed) < MaxLine THEN Bytes ELSE {})
                  \cup {EOF} :
         lin' = IF c = EOF
                THEN [lin EXCEPT !.c = c, !.pc = "end"]
                ELSE [lin EXCEPT !.c = c, !.pc = "body",
                                 !.consumed = Append(@, c)]
    /\ UNCHANGED <<ovars, snd, lck>>

LineBody ==
    /\ lin.pc = "body"
    /\ \E mem \in BOOLEAN, u \in Garbage, d \in Double(lin.memsize) :
         lin' = qfGetLineBody(lin, mem, u, d)
    /\ UNCHANGED <<ovars, snd, lck>>

\* lines 270-273: NULL at once at the end of the stream, else the
\* terminator is written at string[c_count] and string returned
LineReturn ==
    /\ lin.pc = "end"
    /\ lin' = IF lin.c_count = 0 /\ lin.c = EOF
              THEN [lin EXCEPT !.pc = "done", !.ret = "NULL"]
              ELSE LET inside == lin.c_count < Len(lin.string)
                   IN  [lin EXCEPT
                          !.pc = "done",
                          !.ret = "string",
                          !.string = IF inside
                                     THEN [@ EXCEPT ![lin.c_count + 1] = 0]
                                     ELSE @,
                          !.fault = IF inside THEN @ ELSE "overrun"]
    /\ UNCHANGED <<ovars, snd, lck>>

NextLine ==
    \/ LineCall
    \/ LineGetc
    \/ LineBody
    \/ LineReturn

SpecLine == Init /\ [][NextLine]_vars

\* ------------------------------------------------------- claim vocabulary
\* the concatenation of a sequence of chunks
RECURSIVE Concat(_)
Concat(chunks) ==
    IF chunks = <<>> THEN <<>> ELSE Head(chunks) \o Concat(Tail(chunks))

\* the sum of the chunks' byte lengths
RECURSIVE SumLen(_)
SumLen(chunks) ==
    IF chunks = <<>> THEN 0 ELSE Len(Head(chunks)) + SumLen(Tail(chunks))

\* the last call was `name` on the live obstack
Did(name) == op.name = name /\ op.acc = OBS

\* what finish must produce for the chunks given so far
Finalized(chunks) == Concat(chunks) \o <<0>>

GrowNames == {"grow", "growStr", "growStrf"}

\* ------------------------------------------------------------------ claims

\* C1: after any sequence of successful grow / growStr / growStrf calls
\* (finish and getFinal calls in between), getSize is the sum of the byte
\* lengths of the chunks given and getNum is their number.
C1_SizeAndNum ==
    alive =>
      /\ qObstackGetSize(OBS) = SumLen(grown)
      /\ qObstackGetNum(OBS) = Len(grown)
      /\ (Did("getSize") => ret = SumLen(grown))
      /\ (Did("getNum") => ret = Len(grown))

C1_Witness ==
    /\ Did("getSize")
    /\ ret = 8
    /\ grown = << <<65, 66>>, <<67, 68, 69>>, <<70, 71, 72>> >>
    /\ qObstackGetNum(OBS) = 3
    /\ final # NULL

\* C2: every successful finish returns a live buffer of length
\* totalSize + 1 holding the chunks given so far, concatenated in insertion
\* order, and then a zero byte; no write leaves the buffer.
C2_FinishConcat ==
    (Did("finish") /\ ret # NULL) =>
      /\ heap[ret].state = "live"
      /\ heap[ret].data = Finalized(grown)
      /\ Len(heap[ret].data) = qObstackGetSize(OBS) + 1
      /\ "overrun" \notin faults

\* "AB", "CDE" (formatted), "FGH" finished as "ABCDEFGH\0", size 8, 3 chunks,
\* an earlier finish having been made in between
C2_Witness ==
    /\ Did("finish")
    /\ op.before # NULL
    /\ grown = << <<65, 66>>, <<67, 68, 69>>, <<70, 71, 72>> >>
    /\ ret # NULL
    /\ heap[ret].data = <<65, 66, 67, 68, 69, 70, 71, 72, 0>>
    /\ qObstackGetSize(OBS) = 8
    /\ qObstackGetNum(OBS) = 3

\* C3: getFinal on an obstack that has a cached buffer returns that very
\* buffer and recomputes nothing: the slot and the heap are as before, also
\* when chunks were grown since the buffer was built.
C3_GetFinalCached ==
    [][ (op'.name = "getFinal" /\ op'.acc = OBS /\ final # NULL) =>
          (ret' = final /\ final' = final /\ heap' = heap) ]_vars

\* getFinal returned the cached buffer although it is stale
C3_Witness ==
    /\ Did("getFinal")
    /\ op.before # NULL
    /\ ret = op.before
    /\ heap[ret].state = "live"
    /\ Len(grown) = 2
    /\ heap[ret].data = Finalized(SubSeq(grown, 1, 1))

\* C4: a finish whose allocation fails returns NULL and leaves the buffer
\* cached before the call cached, allocated and unchanged.
C4_FailedFinishKeepsCache ==
    [][ (op'.name = "finish" /\ op'.acc = OBS /\ ~op'.mem) =>
          /\ ret' = NULL
          /\ (final # NULL => final' = final /\ heap'[final] = heap[final])
      ]_vars

\* C5 as stated: whenever a buffer is cached it has length totalSize + 1
\* and holds the concatenation of all chunks currently held, then a zero.
C5_CacheIsCurrent ==
    (alive /\ final # NULL) =>
      /\ Len(heap[final].data) = qObstackGetSize(OBS) + 1
      /\ heap[final].data = Finalized(grown)

\* C5 amended: whenever a buffer is cached it is allocated and holds the
\* concatenation of the chunks held when it was built (the first k of the
\* chunks now held, for some k), then a zero byte, its length being their
\* total size + 1; k is the number of chunks now held right after a
\* finish, or a getFinal that found no cached buffer.
C5_CacheIsPrefix ==
    (alive /\ final # NULL) =>
      /\ heap[final].state = "live"
      /\ \E k \in 0..Len(grown) :
           /\ heap[final].data = Finalized(SubSeq(grown, 1, k))
           /\ Len(heap[final].data) = SumLen(SubSeq(grown, 1, k)) + 1
           /\ (Did("finish") \/ (Did("getFinal") /\ op.before = NULL))
                => k = Len(grown)

\* a cached "AB\0" while three chunks are held
C5_Witness ==
    /\ alive
    /\ final # NULL
    /\ Len(grown) = 3
    /\ qObstackGetSize(OBS) = 8
    /\ heap[final].data = <<65, 66, 0>>

C7_GetFinalMiss ==
    [][ (op'.name = "getFinal" /\ op'.acc = OBS /\ final = NULL) =>
          /\ qObstackFinish(OBS, op'.mem, ret')
          /\ IF op'.mem
             THEN /\ ret' # NULL
                  /\ final' = ret'
                  /\ heap[ret'].state = "unused"
                  /\ heap'[ret'].state = "live"
                  /\ heap'[ret'].data = Finalized(grown)
             ELSE /\ ret' = NULL
                  /\ final' = NULL
                  /\ heap' = heap ]_vars

C7_Witness ==
    /\ Did("getFinal")
    /\ op.before = NULL
    /\ ret # NULL
    /\ final = ret
    /\ Len(grown) = 2
    /\ heap[ret].data = Finalized(grown)

\* C8: a finish on an obstack holding no chunks, its allocation granted,
\* returns a live 1-byte buffer holding a zero byte, and getSize and getNum
\* are still 0.
C8_FinishEmpty ==
    (Did("finish") /\ stack.entries = <<>> /\ op.mem) =>
      /\ ret # NULL
      /\ heap[ret].state = "live"
      /\ heap[ret].data = <<0>>
      /\ qObstackGetSize(OBS) = 0
      /\ qObstackGetNum(OBS) = 0

C8_Witness ==
    /\ Did("finish")
    /\ stack.entries = <<>>
    /\ grown = <<>>
    /\ ret # NULL
    /\ heap[ret].data = <<0>>

\* C9: grow with a null obstack, a null object or size 0, growStr with an
\* empty string and growStrf with an empty rendering return false and
\* change nothing.
C9_GrowInvalid ==
    [][ (/\ op'.name \in GrowNames
         /\ (op'.acc = NULL \/ op'.object = NULL \/ op'.size = 0)) =>
          /\ ret' = FALSE
          /\ UNCHANGED <<alive, stack, final, heap, faults, grown>> ]_vars

\* an empty rendering refused on an obstack holding chunks and a buffer
C9_Witness ==
    /\ Did("growStrf")
    /\ op.size = 0
    /\ op.mem
    /\ ret = FALSE
    /\ qObstackGetNum(OBS) = 2
    /\ final # NULL

\* C10: on a null handle grow, growStr and growStrf return false, finish
\* and getFinal return NULL, getSize and getNum return 0, free returns
\* false, and nothing changes.
C10_NullHandle ==
    [][ (op'.acc = NULL) =>
          /\ UNCHANGED <<alive, stack, final, heap, faults, grown, returned>>
          /\ CASE op'.name \in GrowNames -> ret' = FALSE
               [] op'.name \in {"finish", "getFinal"} -> ret' = NULL
               [] op'.name \in {"getSize", "getNum"} -> ret' = 0
               [] op'.name = "free" -> ret' = FALSE ]_vars

C10_Witness ==
    /\ op.name = "free"
    /\ op.acc = NULL
    /\ ret = FALSE
    /\ alive
    /\ qObstackGetNum(OBS) = 3
    /\ final # NULL

\* C11: free on the obstack returns true and releases, each exactly once,
\* the entry list with all its chunks, the cached buffer if there is one,
\* and the obstack itself; no finalized buffer stays allocated.
C11_FreeReleasesAll ==
    [][ (op'.name = "free" /\ op'.acc = OBS) =>
          /\ ret' = TRUE
          /\ alive /\ ~alive'
          /\ ~stack.released /\ stack'.released /\ stack'.entries = <<>>
          /\ (final # NULL =>
                heap[final].state = "live" /\ heap'[final].state = "freed")
          /\ \A b \in Bufs : heap'[b].state # "live"
          /\ "double free" \notin faults' ]_vars

\* three chunks and a cached buffer released by free
C11_Witness ==
    /\ Did("free")
    /\ ret = TRUE
    /\ Len(grown) = 3
    /\ op.before # NULL
    /\ heap[op.before].state = "freed"
    /\ stack.released

\* C16: while the obstack exists its cache slot is empty or refers to an
\* allocated buffer; every finalized buffer other than the one in the slot
\* (after free: every finalized buffer) has been released; no buffer is
\* released twice.
C16_SlotOwnsOneBuffer ==
    /\ alive => (final = NULL \/ heap[final].state = "live")
    /\ \A b \in Bufs : (~alive \/ b # final) => heap[b].state # "live"
    /\ "double free" \notin faults

\* two buffers were built, a finish failed afterwards, then free
C16_Witness ==
    /\ Did("free")
    /\ op.before = NULL
    /\ \A b \in Bufs : heap[b].state = "freed"
    /\ Len(grown) = 2

\* C17: finish and getFinal leave the chunks, their order, totalSize and
\* chunkCount as they were, whether or not the allocation succeeds.
C17_FinalizeKeepsChunks ==
    [][ (op'.name \in {"finish", "getFinal"}) =>
          /\ qEntryIterate(stack') = qEntryIterate(stack)
          /\ stack'.size = stack.size
          /\ stack'.num = stack.num
          /\ Concat(grown') = Concat(grown) ]_vars

\* a finish that succeeded with two chunks held, which are still held
C17_Witness ==
    /\ Did("finish")
    /\ ret # NULL
    /\ Len(qEntryIterate(stack)) = 2
    /\ qObstackGetSize(OBS) = 5
    /\ heap[ret].data = Finalized(grown)

\* C18: a successful grow leaves the cached buffer (slot and content) and
\* the chunks appended before as they were, and its chunk, labelled "" like
\* all others, is the last one visited.
C18_GrowOnlyAppends ==
    [][ (op'.name \in GrowNames /\ ret' = TRUE) =>
          LET old == qEntryIterate(stack)
              new == qEntryIterate(stack')
          IN  /\ final' = final
              /\ heap' = heap
              /\ Len(new) = Len(old) + 1
              /\ SubSeq(new, 1, Len(old)) = old
              /\ new[Len(new)].name = <<>>
              /\ new[Len(new)].object = grown'[Len(grown')]
              /\ Len(grown') = Len(new) ]_vars

\* a second chunk with the same empty label appended behind the first,
\* the cached buffer still the one built before
C18_Witness ==
    /\ Did("growStr")
    /\ ret = TRUE
    /\ final # NULL
    /\ heap[final].data = <<70, 71, 72, 0>>
    /\ Len(qEntryIterate(stack)) = 2
    /\ qEntryIterate(stack)[1].name = qEntryIterate(stack)[2].name
    /\ qEntryIterate(stack)[2].object = <<65, 66>>

\* C12 (SpecStrf): a growStrf whose rendering is longer than the scratch
\* buffer can hold (ScratchSize - 1 bytes before the terminator), its list
\* allocation granted, returns true and appends exactly one chunk: the
\* first ScratchSize - 1 bytes of the rendering; totalSize grows by that
\* length and chunkCount by 1.
C12_TruncatedStrf ==
    [][ (/\ op'.name = "growStrf" /\ op'.acc = OBS /\ op'.mem
         /\ op'.size > ScratchSize - 1) =>
          \E rd \in LongRenderings :
            /\ Len(rd) = op'.size
            /\ ret' = TRUE
            /\ qEntryIterate(stack') =
                 Append(qEntryIterate(stack),
                        [name |-> <<>>,
                         object |-> SubSeq(rd, 1, ScratchSize - 1),
                         size |-> ScratchSize - 1])
            /\ stack'.size = stack.size + ScratchSize - 1
            /\ stack'.num = stack.num + 1 ]_vars

\* "CDEFG" grown behind "AB": a chunk of ScratchSize - 1 bytes, 2 chunks
C12_Witness ==
    /\ Did("growStrf")
    /\ op.size = 5
    /\ ret = TRUE
    /\ qObstackGetNum(OBS) = 2
    /\ qEntryIterate(stack)[1].object = <<65, 66>>
    /\ qEntryIterate(stack)[2].object = SubSeq(<<67, 68, 69, 70, 71>>, 1,
                                                ScratchSize - 1)
    /\ qObstackGetSize(OBS) = 2 + ScratchSize - 1

\* C13 (SpecObj): after k records of the fixed size RecSize were grown, a
\* successful finish returns a buffer whose i-th RecSize bytes are the
\* i-th record grown, and getSize = k * RecSize, getNum = k.
C13_ObjectRoundTrip ==
    (Did("finish") /\ ret # NULL) =>
      LET k == Len(grown)
      IN  /\ \A i \in 1..k :
               /\ Len(grown[i]) = RecSize
               /\ SubSeq(heap[ret].data, (i - 1) * RecSize + 1, i * RecSize)
                    = grown[i]
          /\ qObstackGetSize(OBS) = k * RecSize
          /\ qObstackGetNum(OBS) = k

\* the sample: records 0, 1, 2 grown and finished
C13_Witness ==
    /\ Did("finish")
    /\ ret # NULL
    /\ grown = <<Rec(0), Rec(1), Rec(2)>>
    /\ qObstackGetNum(OBS) = 3
    /\ heap[ret].data = Rec(0) \o Rec(1) \o Rec(2) \o <<0>>

\* C14 (SpecSend): qFileSend called with size = 0 transfers until the end of
\* infd: when the call has returned after a read reported the end of input
\* (no read error, no failed or short write), every byte of infd has been
\* written to outfd and the value returned is their number.
C14_SendUntilEnd ==
    (snd.pc = "done" /\ snd.size = 0 /\ snd.retr = 0 /\ snd.retw >= 0) =>
      /\ snd.output = snd.input
      /\ snd.ret = Len(snd.input)

\* what a call with size > 0 keeps true at every point
SendBounded ==
    snd.size > 0 =>
      /\ Len(snd.output) <= snd.size
      /\ snd.sent = Len(snd.output)
      /\ snd.pc \in {"read", "write"} => snd.sent < snd.size
      /\ snd.pc = "done" =>
           /\ snd.ret = Len(snd.output)
           /\ \/ snd.sent = snd.size
              \/ snd.retr <= 0
              \/ snd.retw <= 0
              \/ snd.retw # snd.retr

\* a call with size > 0 returns in the very step that finds a stop condition
SendStopsAtOnce ==
    snd.size > 0 =>
      /\ (snd.pc = "test" /\ snd.sent = snd.size) => snd'.pc = "done"
      /\ (snd.pc = "read" /\ snd'.retr <= 0) => snd'.pc = "done"
      /\ (snd.pc = "write" /\ (snd'.retw <= 0 \/ snd'.retw # snd.retr)) =>
           snd'.pc = "done"
      /\ snd.pc = "done" => snd'.pc \in {"done", "test"}

\* C19 (SpecSendFair): qFileSend called with size > 0 terminates, never has
\* more than size bytes written to outfd, returns exactly the number of
\* bytes written, and stops as soon as that number reaches size, a read
\* returns end of input or an error, or a write is short or fails.
C19_SendWithSize ==
    /\ []SendBounded
    /\ [][SendStopsAtOnce]_vars
    /\ (snd.pc = "test" /\ snd.size > 0) ~> (snd.pc = "done")

\* size 3 of an input of 4 bytes: the first 3 bytes written, 3 returned
C19_Witness ==
    /\ snd.pc = "done"
    /\ snd.size = 3
    /\ Len(snd.input) = 4
    /\ snd.output = SubSeq(snd.input, 1, 3)
    /\ snd.ret = 3

\* C15 (SpecLock): qFileUnlock unlocks the file: once a process that took
\* the lock with qFileLock has had qFileUnlock return true, it holds the
\* lock no more (so that another process's qFileLock can succeed).
C15_UnlockReleases ==
    \A p \in Procs : lck.pc[p] = "unlocked" => lck.holder # p

\* what C20 says of a call that has ended
LineAsClaimed ==
    /\ lin.pc = "done"
    /\ lin.fault = "none"
    /\ lin.ret = "NULL" => (lin.consumed = <<>> /\ lin.c = EOF)
    /\ lin.ret = "string" =>
         /\ Take(lin.string, lin.c_count + 1) = lin.consumed \o <<0>>
         /\ \/ lin.c = EOF /\ 10 \notin {lin.consumed[i] :
                                           i \in 1..Len(lin.consumed)}
            \/ /\ lin.c = 10
               /\ lin.consumed[Len(lin.consumed)] = 10
               /\ \A i \in 1..(Len(lin.consumed) - 1) : lin.consumed[i] # 10

\* C20 (SpecLine): qfGetLine returns the bytes of the stream up to and
\* including the first newline (or up to the end of the stream) followed by
\* a zero terminator, returns NULL only when the end of the stream is hit
\* before any byte is read, and for every line length its writes (the
\* terminator's included) stay inside the allocated buffer.  Stated for
\* calls in which the system refused no allocation.
C20_GetLine ==
    /\ lin.fault # "overrun"
    /\ (lin.pc \in {"done", "crashed"} /\ ~lin.denied) => LineAsClaimed

\* the same for calls in which memsize never had to pass INT_MAX
LineCorrectBelowOverflow ==
    /\ ~lin.ub => lin.fault = "none"
    /\ (lin.pc \in {"done", "crashed"} /\ ~lin.denied /\ ~lin.ub) =>
         LineAsClaimed

\* a line that made the buffer grow, returned whole
LineGrownReturned ==
    /\ lin.pc = "done"
    /\ lin.ret = "string"
    /\ lin.c_count = InitMemSize + 1
    /\ lin.c = 10
    /\ lin.memsize = 2 * InitMemSize

=============================================================================
